---- MODULE Spec2Model ----
(***************************************************************************)
(* Model of class Graph of ConsoleApplication23.cpp: the adjacency lists,  *)
(* the `used` matrix, Graph::addEdge, Graph::resetUsed, the recursive      *)
(* Graph::euler and the backtracking Graph::hamiltonUtil / Graph::hamilton.*)
(* The two recursions are unfolded into explicit call stacks, one frame    *)
(* per active invocation, one action per loop iteration or return.         *)
(***************************************************************************)
EXTENDS Integers, Sequences, FiniteSets

\* Largest vertex count Graph(size) is constructed with.
MaxN == 3
\* Largest number of addEdge calls made on one graph.
MaxEdges == 3

VARIABLES
    n,          \* Graph::n
    adj,        \* Graph::adj, adj[v] is the neighbour sequence of vertex v
    used,       \* Graph::used, an n x n matrix of booleans
    start,      \* the vertex the caller passes to euler and to hamilton
    pc,         \* "build", "main", "euler", "hamilton", "done" or "ub"
    ub,         \* outcome of an out-of-bounds access: "none", "crash", "continue"
    estack,     \* active euler invocations, innermost last: [v, i]
    cycle,      \* the vector euler fills (reversed by the caller at the end)
    runKind,    \* "none", or the euler call since the last reset: "clean" (the first,
                \* on an all-false used), "repeat" (a later one), "stale"
    marks,      \* number of edges the running euler call has marked used
    calls,      \* number of euler invocations of the running call
    hstack,     \* active hamiltonUtil invocations, innermost last
    path,       \* the vector hamilton fills
    visited,    \* the vector hamilton allocates
    hstart,     \* the start_node_idx hamilton was called with
    hfound,     \* an invocation has returned true and the frames are returning
    hret,       \* the value hamilton returned: "none", "true", "false"
    cerr,       \* number of lines hamilton wrote to cerr
    restored    \* every failed hamiltonUtil so far left path and visited as it found them

vars == <<n, adj, used, start, pc, ub, estack, cycle, runKind, marks, calls,
          hstack, path, visited, hstart, hfound, hret, cerr, restored>>

gvars == <<n, adj, used, start>>
evars == <<estack, cycle, runKind, marks, calls>>
hvars == <<hstack, path, visited, hstart, hfound, hret, cerr, restored>>

V == 0 .. (n - 1)

----------------------------------------------------------------------------
\* Pure helpers.

\* Variant: the vector is left in the order euler filled it.
Reverse_Identity(s) == s

\* std::reverse(eulerCycle.begin(), eulerCycle.end())
RECURSIVE Reverse(_)
Reverse(s) == IF s = <<>> THEN <<>> ELSE Append(Reverse(Tail(s)), Head(s))

PopBack(s) == SubSeq(s, 1, Len(s) - 1)

Top(s) == s[Len(s)]

NoneUsed(us) == \A a \in DOMAIN us : \A b \in DOMAIN us[a] : ~us[a][b]

InRange(x) == 0 <= x /\ x < n

\* Variant: only the direction walked is marked.
MarkUsed_OneWay(us, v, u) == [us EXCEPT ![v][u] = TRUE]

\* used[v][u] = used[u][v] = true
MarkUsed(us, v, u) == [us EXCEPT ![v][u] = TRUE, ![u][v] = TRUE]

\* adj[u].push_back(v); adj[v].push_back(u);
PushBoth(a, u, v) ==
    LET a1 == [a EXCEPT ![u] = Append(@, v)]
    IN  [a1 EXCEPT ![v] = Append(@, u)]

----------------------------------------------------------------------------
\* Graph(int size)
Init ==
    /\ n \in 0 .. MaxN
    /\ adj = [v \in V |-> <<>>]
    /\ used = [v \in V |-> [u \in V |-> FALSE]]
    /\ start \in (IF n = 0 THEN {0} ELSE V)
    /\ pc = "build"
    /\ ub = "none"
    /\ estack = <<>>
    /\ cycle = <<>>
    /\ runKind = "none"
    /\ marks = 0
    /\ calls = 0
    /\ hstack = <<>>
    /\ path = <<>>
    /\ visited = [v \in V |-> FALSE]
    /\ hstart = 0
    /\ hfound = FALSE
    /\ hret = "none"
    /\ cerr = 0
    /\ restored = TRUE

RECURSIVE SumLen(_, _)
SumLen(a, k) == IF k < 0 THEN 0 ELSE Len(a[k]) + SumLen(a, k - 1)

\* Total number of adjacency entries.
EdgeEntries == SumLen(adj, n - 1)

\* Number of addEdge calls made so far: each appends two adjacency entries.
EdgeCount == EdgeEntries \div 2

\* Graph::addEdge with both indices inside [0, n)
AddEdge(u, v) ==
    /\ pc = "build"
    /\ EdgeCount < MaxEdges
    /\ InRange(u) /\ InRange(v)
    /\ adj' = PushBoth(adj, u, v)
    /\ used' = [used EXCEPT ![u][v] = FALSE, ![v][u] = FALSE]
    /\ UNCHANGED <<n, start, pc, ub>>
    /\ UNCHANGED evars
    /\ UNCHANGED hvars

\* Graph::addEdge with an index outside [0, n): vector::operator[] does not
\* check, so the access is undefined behaviour. adj[u].push_back(v) runs first;
\* when u is valid that append has happened before adj[v] is touched.
AddEdgeOutOfRange(u, v) ==
    /\ pc = "build"
    /\ EdgeCount < MaxEdges
    /\ ~(InRange(u) /\ InRange(v))
    /\ adj' = IF InRange(u) THEN [adj EXCEPT ![u] = Append(@, v)] ELSE adj
    /\ ub' \in {"crash", "continue"}
    /\ pc' = "ub"
    /\ UNCHANGED <<n, used, start>>
    /\ UNCHANGED evars
    /\ UNCHANGED hvars

\* Graph::resetUsed
ResetUsed ==
    /\ pc \in {"build", "main"}
    /\ used' = [v \in V |-> [u \in V |-> FALSE]]
    /\ pc' = "main"
    /\ runKind' = "none"
    /\ UNCHANGED <<n, adj, start, ub, estack, cycle, marks, calls>>
    /\ UNCHANGED hvars

----------------------------------------------------------------------------
\* Graph::euler(v, cycle), called by main as g.euler(start, eulerCycle) with an
\* empty vector.
EulerCall ==
    /\ pc \in {"build", "main"}
    /\ n > 0
    /\ pc' = "euler"
    /\ estack' = <<[v |-> start, i |-> 1]>>
    /\ cycle' = <<>>
    /\ runKind' = IF runKind # "none" THEN "repeat"
                  ELSE IF NoneUsed(used) THEN "clean" ELSE "stale"
    /\ marks' = 0
    /\ calls' = 1
    /\ UNCHANGED <<n, adj, used, start, ub>>
    /\ UNCHANGED hvars

\* Variant: the loop steps over the neighbour after the one it handled.
EulerAdvance_SkipTwo(st) == [st EXCEPT ![Len(st)].i = @ + 2]

\* The frame of the innermost euler invocation with its loop moved on by one.
EulerAdvance(st) == [st EXCEPT ![Len(st)].i = @ + 1]

\* for (int u : adj[v]) if (!used[v][u]) { used[v][u] = used[u][v] = true; euler(u, cycle); }
EulerVisit ==
    /\ pc = "euler"
    /\ LET f == Top(estack) IN
        /\ f.i <= Len(adj[f.v])
        /\ LET u == adj[f.v][f.i] IN
            /\ ~used[f.v][u]
            /\ used' = MarkUsed(used, f.v, u)
            /\ estack' = Append(EulerAdvance(estack), [v |-> u, i |-> 1])
    /\ marks' = marks + 1
    /\ calls' = calls + 1
    /\ UNCHANGED <<n, adj, start, pc, ub, cycle, runKind>>
    /\ UNCHANGED hvars

\* The loop iteration of euler whose edge is already used.
EulerSkip ==
    /\ pc = "euler"
    /\ LET f == Top(estack) IN
        /\ f.i <= Len(adj[f.v])
        /\ used[f.v][adj[f.v][f.i]]
        /\ estack' = EulerAdvance(estack)
    /\ UNCHANGED <<n, adj, used, start, pc, ub, cycle, runKind, marks, calls>>
    /\ UNCHANGED hvars

\* cycle.push_back(v) and return; once the outermost invocation has returned,
\* main reverses the vector.
EulerReturn ==
    /\ pc = "euler"
    /\ LET f == Top(estack) IN
        /\ f.i > Len(adj[f.v])
        /\ estack' = PopBack(estack)
        /\ IF Len(estack) = 1
             THEN /\ cycle' = Reverse(Append(cycle, f.v))
                  /\ pc' = "main"
             ELSE /\ cycle' = Append(cycle, f.v)
                  /\ pc' = pc
    /\ UNCHANGED <<n, adj, used, start, ub, runKind, marks, calls>>
    /\ UNCHANGED hvars

----------------------------------------------------------------------------
\* Variant: the closing scan runs at every depth.
HamClosing_AnyDepth(p, v, depth) ==
    \E k \in 1 .. Len(adj[v]) : adj[v][k] = p[1]

\* if (depth == n) for (int u : adj[v]) if (u == path[0]) ...
HamClosing(p, v, depth) ==
    /\ depth = n
    /\ \E k \in 1 .. Len(adj[v]) : adj[v][k] = p[1]

\* Variant: the vertex just pushed is appended again instead of path[0].
ClosePath_Last(p) == Append(p, p[Len(p)])

\* path.push_back(path[0])
ClosePath(p) == Append(p, p[1])

\* Variant: the vertex stays marked when the search backs out of it.
Unvisit_Keep(vis, v) == vis

\* visited[v] = false
Unvisit(vis, v) == [vis EXCEPT ![v] = FALSE]

\* path.push_back(v); visited[v] = true; then the closing scan. p, vis and st are
\* path, visited and the call stack as the caller left them.
HamEnter(p, vis, st, v, depth) ==
    LET p1 == Append(p, v) IN
    /\ visited' = [vis EXCEPT ![v] = TRUE]
    /\ hstack' = Append(st, [v |-> v, depth |-> depth, i |-> 1,
                             path0 |-> p, visited0 |-> vis])
    /\ IF HamClosing(p1, v, depth)
         THEN path' = ClosePath(p1) /\ hfound' = TRUE
         ELSE path' = p1 /\ hfound' = FALSE

\* Graph::hamilton(path, start_node_idx) with a valid index: clear path, allocate
\* visited, call hamiltonUtil(start_node_idx, visited, path, 1).
HamiltonCall ==
    /\ pc \in {"build", "main"}
    /\ InRange(start)
    /\ hstart' = start
    /\ pc' = "hamilton"
    /\ HamEnter(<<>>, [v \in V |-> FALSE], <<>>, start, 1)
    /\ UNCHANGED <<hret, cerr, restored, ub>>
    /\ UNCHANGED gvars
    /\ UNCHANGED evars

\* Graph::hamilton with start_node_idx < 0 or >= n: path.clear(), return false,
\* and for a graph with vertices a line on cerr before that.
HamiltonBadStart(s) ==
    /\ pc \in {"build", "main"}
    /\ ~InRange(s)
    /\ hstart' = s
    /\ cerr' = IF n = 0 THEN cerr ELSE cerr + 1
    /\ path' = <<>>
    /\ hret' = "false"
    /\ pc' = "done"
    /\ UNCHANGED <<hstack, visited, hfound, restored, ub>>
    /\ UNCHANGED gvars
    /\ UNCHANGED evars

\* for (int u : adj[v]) if (!visited[u]) if (hamiltonUtil(u, visited, path, depth + 1)) ...
HamRecurse ==
    /\ pc = "hamilton" /\ ~hfound
    /\ LET f == Top(hstack) IN
        /\ f.i <= Len(adj[f.v])
        /\ ~visited[adj[f.v][f.i]]
        /\ HamEnter(path, visited, [hstack EXCEPT ![Len(hstack)].i = @ + 1],
                    adj[f.v][f.i], f.depth + 1)
    /\ UNCHANGED <<hstart, hret, cerr, restored, pc, ub>>
    /\ UNCHANGED gvars
    /\ UNCHANGED evars

\* The loop iteration of hamiltonUtil whose neighbour is already visited.
HamSkip ==
    /\ pc = "hamilton" /\ ~hfound
    /\ LET f == Top(hstack) IN
        /\ f.i <= Len(adj[f.v])
        /\ visited[adj[f.v][f.i]]
        /\ hstack' = [hstack EXCEPT ![Len(hstack)].i = @ + 1]
    /\ UNCHANGED <<path, visited, hstart, hfound, hret, cerr, restored, pc, ub>>
    /\ UNCHANGED gvars
    /\ UNCHANGED evars

\* Variant: backing out also clears the edge-usage matrix.
HamBacktrack_ClearsUsed ==
    /\ pc = "hamilton" /\ ~hfound
    /\ LET f == Top(hstack) IN
        /\ f.i > Len(adj[f.v])
        /\ visited' = Unvisit(visited, f.v)
        /\ path' = PopBack(path)
        /\ hstack' = PopBack(hstack)
        /\ restored' = (restored /\ path' = f.path0 /\ visited' = f.visited0)
    /\ IF Len(hstack) = 1
         THEN hret' = "false" /\ pc' = "done"
         ELSE hret' = hret /\ pc' = pc
    /\ UNCHANGED <<hstart, hfound, cerr, ub>>
    /\ used' = [v \in V |-> [u \in V |-> FALSE]]
    /\ UNCHANGED <<n, adj, start>>
    /\ UNCHANGED evars

\* visited[v] = false; path.pop_back(); return false;
HamBacktrack ==
    /\ pc = "hamilton" /\ ~hfound
    /\ LET f == Top(hstack) IN
        /\ f.i > Len(adj[f.v])
        /\ visited' = Unvisit(visited, f.v)
        /\ path' = PopBack(path)
        /\ hstack' = PopBack(hstack)
        /\ restored' = (restored /\ path' = f.path0 /\ visited' = f.visited0)
    /\ IF Len(hstack) = 1
         THEN hret' = "false" /\ pc' = "done"
         ELSE hret' = hret /\ pc' = pc
    /\ UNCHANGED <<hstart, hfound, cerr, ub>>
    /\ UNCHANGED gvars
    /\ UNCHANGED evars

\* return true, out of the invocation that closed the cycle and then out of
\* each caller ("if (hamiltonUtil(...)) return true;").
HamReturnTrue ==
    /\ pc = "hamilton" /\ hfound
    /\ hstack' = PopBack(hstack)
    /\ IF Len(hstack) = 1
         THEN hret' = "true" /\ pc' = "done"
         ELSE hret' = hret /\ pc' = pc
    /\ UNCHANGED <<path, visited, hstart, hfound, cerr, restored, ub>>
    /\ UNCHANGED gvars
    /\ UNCHANGED evars

----------------------------------------------------------------------------
Next ==
    \/ \E u, v \in V : AddEdge(u, v)
    \/ \E u, v \in -1 .. n : AddEdgeOutOfRange(u, v)
    \/ ResetUsed
    \/ EulerCall
    \/ EulerVisit
    \/ EulerSkip
    \/ EulerReturn
    \/ HamiltonCall
    \/ \E s \in {-1, n} : HamiltonBadStart(s)
    \/ HamRecurse
    \/ HamSkip
    \/ HamBacktrack
    \/ HamReturnTrue

Spec == Init /\ [][Next]_vars

----------------------------------------------------------------------------
\* Graph notions the properties are stated with.

Range(q) == {q[k] : k \in 1 .. Len(q)}

\* How often x occurs in the sequence q.
Count(q, x) == Cardinality({k \in 1 .. Len(q) : q[k] = x})

Adjacent(u, v) == v \in Range(adj[u])

RECURSIVE ReachFrom(_)
ReachFrom(S) ==
    LET T == S \cup {u \in V : \E v \in S : Adjacent(v, u)}
    IN  IF T = S THEN S ELSE ReachFrom(T)

\* The vertices joined to start by a chain of inserted edges.
Reachable == ReachFrom({start})

Connected == Reachable = V

EvenDegrees == \A v \in V : Len(adj[v]) % 2 = 0

\* Number of addEdge calls that joined u and v (a self-loop adds two entries).
EdgeMult(u, v) == IF u = v THEN Count(adj[u], u) \div 2 ELSE Count(adj[u], v)

\* Number of steps of the walk w that go between u and v, in either direction.
WalkMult(w, u, v) ==
    Cardinality({k \in 1 .. (Len(w) - 1) :
                    \/ (w[k] = u /\ w[k + 1] = v)
                    \/ (w[k] = v /\ w[k + 1] = u)})

NoParallelEdges == \A u, v \in V : EdgeMult(u, v) <= 1

\* w is a closed walk from start that uses every inserted edge exactly once.
EulerianCircuit(w) ==
    /\ Len(w) = EdgeCount + 1
    /\ w[1] = start
    /\ w[Len(w)] = start
    /\ \A u, v \in V : WalkMult(w, u, v) = EdgeMult(u, v)

\* An euler call has returned and main has reversed its vector.
EulerFinished == runKind # "none" /\ pc \in {"main", "hamilton", "done"}

\* hamilton has returned.
HamiltonFinished == pc = "done"

\* The euler call that returned was the first since construction or the last
\* resetUsed, and used was all false when it was made.
CleanRunDone == EulerFinished /\ runKind = "clean"

\* Every consecutive pair of w is joined by an inserted edge.
WalkAdjacent(w) == \A k \in 1 .. (Len(w) - 1) : Adjacent(w[k], w[k + 1])

NotEulerian == ~(Connected /\ EvenDegrees)

\* Every vertex joined to start has an even number of adjacency entries.
ComponentEven == \A v \in Reachable : Len(adj[v]) % 2 = 0

\* No two addEdge calls joined the same pair of vertices of start's component.
ComponentSimple == \A u \in Reachable, v \in V : EdgeMult(u, v) <= 1

Complete == \A u, v \in V : u # v => Adjacent(u, v)

\* There is an ordering v1 = start, ..., vn of all vertices whose consecutive
\* vertices are adjacent and whose last vertex is adjacent to start.
HasHamOrdering ==
    \E f \in [1 .. n -> V] :
        /\ f[1] = start
        /\ \A i, j \in 1 .. n : i # j => f[i] # f[j]
        /\ \A i \in 1 .. (n - 1) : Adjacent(f[i], f[i + 1])
        /\ Adjacent(f[n], start)

HamSuccess == pc = "done" /\ hret = "true"

\* hamilton was called with a valid start and has returned.
ValidSearchDone == pc = "done" /\ InRange(hstart)

----------------------------------------------------------------------------
\* C1 (as stated): on every connected graph with all adjacency lengths even,
\* built by any sequence of addEdge calls, a clean euler(start) yields after
\* reversal a closed walk from start of length edgeCount + 1 that uses every
\* inserted edge exactly once.
C1_AnyEdgeSequence ==
    (CleanRunDone /\ Connected /\ EvenDegrees) => EulerianCircuit(cycle)

\* C1 (amended): the same, for graphs in which no two addEdge calls joined the
\* same pair of vertices (used holds one flag per vertex pair, so parallel
\* edges are consumed together).
C1_EulerCircuit ==
    (CleanRunDone /\ Connected /\ EvenDegrees /\ NoParallelEdges)
        => EulerianCircuit(cycle)

\* A clean euler run has finished on a triangle.
C1_Witness ==
    /\ CleanRunDone /\ Connected /\ EvenDegrees /\ NoParallelEdges
    /\ n = 3 /\ EdgeCount = 3 /\ Len(cycle) = 4

\* C2: whenever hamilton reports success, path has n + 1 entries, starts and
\* ends at the start vertex, its first n entries are pairwise distinct and every
\* consecutive pair is adjacent.
C2_HamiltonPath ==
    HamSuccess =>
        /\ Len(path) = n + 1
        /\ path[1] = hstart
        /\ path[n + 1] = hstart
        /\ \A i, j \in 1 .. n : i # j => path[i] # path[j]
        /\ \A i \in 1 .. n : Adjacent(path[i], path[i + 1])

\* hamilton has succeeded on a graph of three vertices.
C2_Witness == HamSuccess /\ n = 3 /\ Len(path) = 4

\* C3: for a valid start, hamilton reports success exactly when a Hamiltonian
\* ordering from start exists; it succeeds on every complete graph of at least
\* 3 vertices and fails on every graph of more than one vertex that has a
\* vertex of degree 0.
C3_HamiltonComplete ==
    ValidSearchDone =>
        /\ (hret = "true") <=> HasHamOrdering
        /\ (Complete /\ n >= 3) => hret = "true"
        /\ (n > 1 /\ \E v \in V : Len(adj[v]) = 0) => hret = "false"

\* hamilton has succeeded on the complete graph of three vertices.
C3_Witness == ValidSearchDone /\ Complete /\ n = 3 /\ hret = "true"

\* C4 (as stated): on a graph that is not Eulerian or not connected, a clean
\* euler(start) yields after reversal a walk: it starts at start, every
\* consecutive pair is joined by an inserted edge, and it stays among the
\* vertices reachable from start.
C4_PartialWalk ==
    (CleanRunDone /\ NotEulerian) =>
        /\ cycle[1] = start
        /\ WalkAdjacent(cycle)
        /\ Range(cycle) \subseteq Reachable

\* C4 (amended): on such a graph the reversed sequence starts at start, holds
\* only vertices reachable from start and has one entry per marked edge plus
\* one; its consecutive entries are joined by edges (and it is a closed walk
\* over every edge of start's component) when every vertex reachable from start
\* has even degree and that component has no parallel edges. Otherwise
\* consecutive entries need not be adjacent.
C4_PartialSequence ==
    (CleanRunDone /\ NotEulerian) =>
        /\ cycle[1] = start
        /\ Range(cycle) \subseteq Reachable
        /\ Len(cycle) = marks + 1
        /\ (ComponentEven /\ ComponentSimple) =>
              /\ WalkAdjacent(cycle)
              /\ cycle[Len(cycle)] = start
              /\ \A u \in Reachable, v \in V :
                    WalkMult(cycle, u, v) = EdgeMult(u, v)

\* A clean euler run has finished on a disconnected graph whose start component
\* is Eulerian, having walked an edge.
C4_Witness ==
    /\ CleanRunDone /\ NotEulerian /\ ComponentEven /\ ComponentSimple
    /\ marks >= 1

\* C5: after a clean euler(start) every inserted edge with a reachable endpoint
\* is marked used in both directions; a further euler(start) without resetUsed
\* marks no edge and yields only <<start>>.
C5_UsedAfterEuler ==
    /\ CleanRunDone =>
          \A u \in Reachable, v \in V :
              Adjacent(u, v) => (used[u][v] /\ used[v][u])
    /\ (EulerFinished /\ runKind = "repeat") =>
          (cycle = <<start>> /\ marks = 0)

\* A second euler run has finished on a graph whose edges the first one marked.
C5_Witness ==
    /\ EulerFinished /\ runKind = "repeat"
    /\ ~NoneUsed(used) /\ EdgeCount >= 2 /\ Len(adj[start]) >= 2

\* C6 (as stated): addEdge with an index outside [0, n) gives an
\* IndexOutOfRangeError outcome and leaves adj and used unchanged.
C6_AddEdgeRejects ==
    [][(pc = "build" /\ pc' = "ub")
          => (ub' = "IndexOutOfRangeError" /\ adj' = adj /\ used' = used)]_vars

\* C7 (as stated): hamilton with a start outside [0, n) on a graph with n > 0
\* does not return the not-found value; with n = 0 it returns false and an
\* empty path.
C7_BadStartSignalled ==
    (pc = "done" /\ ~InRange(hstart)) =>
        IF n = 0 THEN hret = "false" /\ path = <<>>
                 ELSE hret # "false"

\* The invariant of the search: visited marks exactly the vertices of path, path
\* has no repeated vertex, and the innermost frame's depth, the number of frames
\* and the length of path agree and are at most n.
SearchInv ==
    /\ {v \in V : visited[v]} = Range(path)
    /\ \A i, j \in 1 .. Len(path) : i # j => path[i] # path[j]
    /\ Len(path) = Top(hstack).depth
    /\ Len(hstack) = Len(path)
    /\ Len(hstack) <= n

\* Every failed hamiltonUtil left path and visited as they were at its call, and
\* a top-level not-found leaves path empty and all vertices unvisited.
FailureRestores ==
    /\ restored
    /\ (ValidSearchDone /\ hret = "false") =>
          (path = <<>> /\ \A v \in V : ~visited[v])

\* C8 (as stated): SearchInv holds in every state of a Hamiltonian search, and
\* failures restore path and visited.
C8_EveryState ==
    /\ pc = "hamilton" => SearchInv
    /\ FailureRestores

\* C8 (amended): SearchInv holds in every state of a Hamiltonian search in which
\* no invocation has yet found the closing edge (after that path also holds the
\* repeated start vertex, n + 1 entries in all), and failures restore path and
\* visited.
C8_WhileSearching ==
    /\ (pc = "hamilton" /\ ~hfound) => SearchInv
    /\ FailureRestores

\* A search over three vertices that left the start vertex has reported
\* not-found.
C8_Witness ==
    /\ ValidSearchDone /\ hret = "false"
    /\ n = 3 /\ Len(adj[start]) >= 1 /\ \E v \in V \ {start} : Adjacent(start, v)

\* Adjacency entries whose edge is not yet marked used.
UnusedEntries ==
    Cardinality({e \in V \X (1 .. EdgeEntries) :
                    /\ e[2] <= Len(adj[e[1]])
                    /\ ~used[e[1]][adj[e[1]][e[2]]]})

\* Loop iterations and returns the active euler invocations still have to make
\* if no further edge is walked.
RECURSIVE PendingSteps(_)
PendingSteps(st) ==
    IF st = <<>> THEN 0
    ELSE (Len(adj[Head(st).v]) + 2 - Head(st).i) + PendingSteps(Tail(st))

\* What every state of an euler call satisfies: at most edgeCount edges are
\* marked, and the invocations (one more than the marked edges), the recursion
\* depth and the produced sequence number at most edgeCount + 1.
EulerBounds ==
    (pc = "euler" \/ EulerFinished) =>
        /\ marks <= EdgeCount
        /\ calls = marks + 1
        /\ Len(estack) <= EdgeCount + 1
        /\ Len(cycle) <= EdgeCount + 1
        /\ EulerFinished => (Len(cycle) = calls /\ estack = <<>>)

\* Every step of an euler call lowers the pair (UnusedEntries, PendingSteps) in
\* the lexicographic order.
EulerProgress ==
    pc = "euler" =>
        \/ UnusedEntries' < UnusedEntries
        \/ /\ UnusedEntries' = UnusedEntries
           /\ PendingSteps(estack') < PendingSteps(estack)

\* C9: euler terminates on every graph and from every start: each of its steps
\* lowers a well-founded measure, at most edgeCount edges are marked, and the
\* number of invocations, the recursion depth and the length of the produced
\* sequence never exceed edgeCount + 1.
C9_EulerBounded == []EulerBounds /\ [][EulerProgress]_vars

\* An euler run over three edges has finished with four invocations.
C9_Witness == EulerFinished /\ EdgeCount = 3 /\ calls = 4

\* C10: no step of hamilton changes n, adj or used, and no step of euler changes
\* n or adj.
C10_Frame ==
    [][ /\ (pc = "hamilton" \/ pc' = "hamilton" \/ pc' = "done")
              => (n' = n /\ adj' = adj /\ used' = used)
        /\ (pc = "euler" \/ pc' = "euler") => (n' = n /\ adj' = adj) ]_vars

\* hamilton has backed out of a search on a graph whose edges euler had marked.
C10_Witness ==
    /\ ValidSearchDone /\ ~NoneUsed(used) /\ runKind # "none"
    /\ n = 3 /\ Len(adj[start]) >= 1

====
